---- MODULE Spec2Model ----
(***************************************************************************)
(* Model of findmycells/inspection.py: InspectionObject (label and plane   *)
(* selection over a label volume) and InspectReconstructedCells2D (crop     *)
(* planning, cropping, plot-info building, figure assembly).                *)
(***************************************************************************)
EXTENDS Integers, Sequences, FiniteSets, TLC

\* ---------------------------------------------------------------- bounds
\* largest half_window_size drawn for direct calls of the window clamper
MaxHalf == 4
\* largest axis extent (max_value) drawn for direct calls of the window clamper
MaxExtent == 14

\* most planes (z_dim) of a loaded label volume
MaxZ == 2
\* most non-background cells of a loaded label volume
MaxPixels == 3

\* ------------------------------------------------------ program constants
\* get_cropping_indices: half_window_size = 200
half_window_size == 200
\* plot_reconstructed_cells: the crosshair is drawn around 200 on both axes
marker_center == 200
\* plot_reconstructed_cells: the crosshair spans [185, 215]
marker_lo == 185
marker_hi == 215

\* ------------------------------------------------------------- state
VARIABLES
    zstack,     \* InspectionObject.zstack: the loaded label volume (source buffer)
    pc,         \* position of the inspection call
    request,    \* arguments of InspectionObject.__init__: label_index, show, save
    obj,        \* InspectionObject fields: label_id, plane_id, show, save
    out,        \* what InspectReconstructedCells2D.run computed and rendered
    clampIn,    \* <<centroid_coord, max_value, half_window_size>> of a direct clamper call
    clampOut    \* <<>> before the call, <<lower_index, upper_index>> after it

vars == <<zstack, pc, request, obj, out, clampIn, clampOut>>

\* --------------------------------------------------------- label volumes
\* A volume is its shape and its non-background cells <<plane, x, y, label>>;
\* every other cell of the shape holds 0.
Min(a, b) == IF a < b THEN a ELSE b
Max(a, b) == IF a > b THEN a ELSE b

\* ascending sequence of a finite set of integers (np.unique returns sorted values)
RECURSIVE SortedSeq(_)
SortedSeq(S) ==
    IF S = {} THEN <<>>
    ELSE LET m == CHOOSE x \in S : \A y \in S : x <= y
         IN <<m>> \o SortedSeq(S \ {m})

SeqToSet(q) == { q[i] : i \in 1..Len(q) }

\* number of cells of a volume
Size(v) == v.z_dim * v.x_dim * v.y_dim

\* the values a volume holds: its labels, and 0 when some cell is background
Values(v) ==
    { c[4] : c \in v.cells } \cup (IF Cardinality(v.cells) < Size(v) THEN {0} ELSE {})

\* np.unique(volume) as a list
np_unique(v) == SortedSeq(Values(v))

\* zstack[plane_index]: one plane of a volume, as a volume of one plane
Plane(v, plane_index) ==
    [ z_dim  |-> 1, x_dim |-> v.x_dim, y_dim |-> v.y_dim,
      cells  |-> { <<0, c[2], c[3], c[4]>> : c \in { d \in v.cells : d[1] = plane_index } } ]

\* list.remove(x): drops the first occurrence of x
ListRemove(q, x) ==
    LET i == CHOOSE k \in 1..Len(q) : q[k] = x /\ \A j \in 1..(k - 1) : q[j] # x
    IN SubSeq(q, 1, i - 1) \o SubSeq(q, i + 1, Len(q))

\* "if x in l: l.remove(x)"
RemoveIfIn(q, x) == IF x \in SeqToSet(q) THEN ListRemove(q, x) ELSE q

\* ------------------------------------------------------ InspectionObject
\* q[i] as Python evaluates it: a negative i counts from the end, an i outside
\* -len..len-1 raises IndexError
PyIndexOk(q, i) == (-Len(q) <= i) /\ (i < Len(q))
PyIndex(q, i) == IF i >= 0 THEN q[i + 1] ELSE q[Len(q) + i + 1]

\* label_ids of get_label_id: the unique values without the background ids [0, 0.0]
LabelIdsDroppingFirst(v) == Tail(np_unique(v))

LabelIds(v) == RemoveIfIn(RemoveIfIn(np_unique(v), 0), 0)

\* get_label_id raises IndexError for this index
get_label_id_raises(v, index) == ~PyIndexOk(LabelIds(v), index)

get_label_id(v, index) == PyIndex(LabelIds(v), index)

\* n copies of x
Repeat(x, n) == [ i \in 1..n |-> x ]

\* np.where(zstack == label_id)[0]: the plane index of every cell that holds
\* label_id, in row-major order, so one entry per cell and ascending
RECURSIVE PlanesFrom(_, _, _)
PlanesFrom(v, label_id, plane_index) ==
    IF plane_index >= v.z_dim THEN <<>>
    ELSE Repeat(plane_index,
                Cardinality({ c \in v.cells : c[1] = plane_index /\ c[4] = label_id }))
            \o PlanesFrom(v, label_id, plane_index + 1)

all_planes_with_label_id(v, label_id) == PlanesFrom(v, label_id, 0)

\* int(len / 2) of a non-negative length
IntHalf(n) == n \div 2

get_plane_id_first(v, label_id) == all_planes_with_label_id(v, label_id)[1]

get_plane_id(v, label_id) ==
    LET planes == all_planes_with_label_id(v, label_id)
    IN IF Len(planes) > 1 THEN planes[IntHalf(Len(planes)) + 1] ELSE planes[1]

\* ------------------------------------------------------ window clamper
\* the branch of the if/elif/elif/else chain that is taken (1..4)
ClampBranchStrictUpper(centroid_coord, max_value, half_window) ==
    IF (centroid_coord - half_window >= 0) /\ (centroid_coord + half_window < max_value)
    THEN 1
    ELSE IF (centroid_coord - half_window < 0) /\ (2 * half_window <= max_value)
    THEN 2
    ELSE IF (centroid_coord - 2 * half_window >= 0) /\ (centroid_coord + half_window > max_value)
    THEN 3
    ELSE 4

ClampBranchNoLowerTest(centroid_coord, max_value, half_window) ==
    IF (centroid_coord - half_window >= 0) /\ (centroid_coord + half_window <= max_value)
    THEN 1
    ELSE IF 2 * half_window <= max_value
    THEN 2
    ELSE IF (centroid_coord - 2 * half_window >= 0) /\ (centroid_coord + half_window > max_value)
    THEN 3
    ELSE 4

ClampBranchNoThird(centroid_coord, max_value, half_window) ==
    IF (centroid_coord - half_window >= 0) /\ (centroid_coord + half_window <= max_value)
    THEN 1
    ELSE IF (centroid_coord - half_window < 0) /\ (2 * half_window <= max_value)
    THEN 2
    ELSE IF centroid_coord + half_window > max_value
    THEN 3
    ELSE 4

ClampBranch(centroid_coord, max_value, half_window) ==
    IF (centroid_coord - half_window >= 0) /\ (centroid_coord + half_window <= max_value)
    THEN 1
    ELSE IF (centroid_coord - half_window < 0) /\ (2 * half_window <= max_value)
    THEN 2
    ELSE IF (centroid_coord - 2 * half_window >= 0) /\ (centroid_coord + half_window > max_value)
    THEN 3
    ELSE 4

adjust_cropping_box_to_image_borders(centroid_coord, max_value, half_window) ==
    CASE ClampBranch(centroid_coord, max_value, half_window) = 1 ->
            <<centroid_coord - half_window, centroid_coord + half_window>>
      [] ClampBranch(centroid_coord, max_value, half_window) = 2 ->
            <<0, 2 * half_window>>
      [] ClampBranch(centroid_coord, max_value, half_window) = 3 ->
            <<max_value - 2 * half_window, max_value>>
      [] OTHER ->
            <<0, max_value>>

\* ------------------------------------------- InspectReconstructedCells2D
\* round(num / den) as Python rounds a float: to nearest, ties to even (den > 0)
PyRound(num, den) ==
    LET q == num \div den
        r == num % den
    IN IF 2 * r < den THEN q
       ELSE IF 2 * r > den THEN q + 1
       ELSE IF q % 2 = 0 THEN q ELSE q + 1

RECURSIVE SumOf(_)
SumOf(S) ==
    IF S = {} THEN 0
    ELSE LET x == CHOOSE y \in S : TRUE IN x[2] + SumOf(S \ {x})

\* round(roi.centroid.x), round(roi.centroid.y) of the polygon of label_id on a
\* plane: the rounded mean position of the cells that hold label_id
polygon_centroid(plane, label_id) ==
    LET px == { <<c, c[2]>> : c \in { d \in plane.cells : d[4] = label_id } }
        py == { <<c, c[3]>> : c \in { d \in plane.cells : d[4] = label_id } }
    IN <<PyRound(SumOf(px), Cardinality(px)), PyRound(SumOf(py), Cardinality(py))>>

get_cropping_indices(v, plane_id, label_id) ==
    LET centroid == polygon_centroid(Plane(v, plane_id), label_id)
        wx == adjust_cropping_box_to_image_borders(centroid[1], v.x_dim, half_window_size)
        wy == adjust_cropping_box_to_image_borders(centroid[2], v.y_dim, half_window_size)
    IN <<wx[1], wx[2], wy[1], wy[2]>>

\* a[lo:hi] on an axis of n cells: Python's slice bounds, negative ones counted
\* from the end, all clipped to 0..n
SliceBound(i, n) == IF i < 0 THEN Max(i + n, 0) ELSE Min(i, n)

\* array[:, cminx:cmaxx, cminy:cmaxy]
Slice(v, w) ==
    LET lx == SliceBound(w[1], v.x_dim)
        ux == SliceBound(w[2], v.x_dim)
        ly == SliceBound(w[3], v.y_dim)
        uy == SliceBound(w[4], v.y_dim)
    IN [ z_dim |-> v.z_dim,
         x_dim |-> Max(ux - lx, 0),
         y_dim |-> Max(uy - ly, 0),
         cells |-> { <<c[1], c[2] - lx, c[3] - ly, c[4]>> :
                        c \in { d \in v.cells : /\ lx <= d[2] /\ d[2] < ux
                                                /\ ly <= d[3] /\ d[3] < uy } } ]

\* the buffer that holds the cells of inspection_object.zstack
SourceBuffer == "zstack"

\* the buffer of array.copy(): the alias (no copy) and the fresh buffer
np_copy_alias(buffer) == buffer

np_copy(buffer) == "copy"

\* get_plotting_info: label_ids, the unique values of the cropped volume without 0
PlotLabelIds(v) == RemoveIfIn(RemoveIfIn(np_unique(v), 0), 0)

\* get_plotting_info: plane_index -> the label_ids that get an entry
get_plotting_info_dense(v) ==
    [ plane_index \in 0..(v.z_dim - 1) |-> SeqToSet(PlotLabelIds(v)) ]

get_plotting_info(v) ==
    [ plane_index \in 0..(v.z_dim - 1) |->
        { label_id \in SeqToSet(PlotLabelIds(v)) :
            label_id \in SeqToSet(np_unique(Plane(v, plane_index))) } ]

\* plot_reconstructed_cells, column 3: per row the boundaries drawn and the two
\* red lines of the crosshair, <<x1, x2, y1, y2>> in plot coordinates (plot x
\* runs along array axis 1, plot y along array axis 0), or none
Column3(final_labels_zstack, plotting_info, plane_id_of_interest) ==
    [ plane_index \in 0..(final_labels_zstack.z_dim - 1) |->
        [ boundaries |-> plotting_info[plane_index],
          marker |-> IF plane_index = plane_id_of_interest
                     THEN << <<marker_lo, marker_hi, marker_center, marker_center>>,
                             <<marker_center, marker_center, marker_lo, marker_hi>> >>
                     ELSE <<>> ] ]

\* --------------------------------------- direct calls of the window clamper
\* calls with the half window of get_cropping_indices: the worked examples of
\* the window clamper, and one centroid per branch on an axis of 500
ExampleCalls ==
    { <<50, 1000, half_window_size>>, <<500, 1000, half_window_size>>,
      <<950, 1000, half_window_size>>, <<50, 300, half_window_size>>,
      <<200, 400, half_window_size>> }
        \cup { <<c, 500, half_window_size>> : c \in {0, 250, 350, 450} }

ClampCalls ==
    { <<c, m, h>> \in (0..MaxExtent) \X (1..MaxExtent) \X (1..MaxHalf) : c <= m }
        \cup ExampleCalls

InitClamp ==
    /\ clampIn \in ClampCalls
    /\ clampOut = <<>>
    /\ pc = "clamp"
    /\ zstack = [ z_dim |-> 0, x_dim |-> 0, y_dim |-> 0, cells |-> {} ]
    /\ request = <<>>
    /\ obj = <<>>
    /\ out = <<>>

Adjust ==
    /\ pc = "clamp"
    /\ clampOut = <<>>
    /\ clampOut' = adjust_cropping_box_to_image_borders(clampIn[1], clampIn[2], clampIn[3])
    /\ UNCHANGED <<clampIn, zstack, pc, request, obj, out>>

\* ------------------------------------------------------ inspection calls
\* label identities drawn for the cells of a loaded volume
LabelSet == {3, 7}

\* plane shapes <<x_dim, y_dim>> drawn for a loaded volume: narrower than the
\* crop window, and wider than it
Shapes == { <<1, 2>>, <<300, 1000>>, <<500, 500>> }

\* the positions <<x, y>> of a plane at which a loaded volume may hold a label
Sites(shape) ==
    CASE shape = <<1, 2>> -> { <<0, 0>>, <<0, 1>> }
      [] shape = <<300, 1000>> -> { <<50, 50>>, <<150, 500>>, <<250, 950>> }
      [] shape = <<500, 500>> -> { <<0, 0>>, <<350, 250>>, <<450, 450>> }

\* label_index values drawn for a call: valid, negative, and too large
LabelIndexes == (-Cardinality(LabelSet))..Cardinality(LabelSet)

CellSets(z_dim, shape) ==
    { cells \in SUBSET { <<z, xy[1], xy[2], l>> :
                            z \in 0..(z_dim - 1), xy \in Sites(shape), l \in LabelSet } :
        /\ Cardinality(cells) <= MaxPixels
        /\ \A c, d \in cells : (c[1] = d[1] /\ c[2] = d[2] /\ c[3] = d[3]) => c = d }

\* the label volumes load_postprocessed_segmentation may hand over
Volumes ==
    UNION { UNION { { [ z_dim |-> z, x_dim |-> shape[1], y_dim |-> shape[2], cells |-> cells ] :
                        cells \in CellSets(z, shape) } :
                    shape \in Shapes } :
            z \in 1..MaxZ }

InitInspect ==
    /\ zstack \in Volumes
    /\ pc = "loaded"
    /\ request = <<>>
    /\ obj = <<>>
    /\ out = <<>>
    /\ clampIn = <<>>
    /\ clampOut = <<>>

\* InspectionObject.__init__(database, file_id, area_roi_id, label_index, show, save)
Construct(label_index, show, save) ==
    /\ pc = "loaded"
    /\ request' = [ label_index |-> label_index, show |-> show, save |-> save ]
    /\ IF get_label_id_raises(zstack, label_index)
       THEN /\ pc' = "index_error"
            /\ obj' = <<>>
       ELSE /\ pc' = "constructed"
            /\ obj' = [ label_id |-> get_label_id(zstack, label_index),
                        plane_id |-> get_plane_id(zstack, get_label_id(zstack, label_index)),
                        show     |-> show,
                        save     |-> save ]
    /\ UNCHANGED <<zstack, out, clampIn, clampOut>>

\* InspectReconstructedCells2D.run(inspection_object); savefig_ok is whether the
\* destination can be written
Run(savefig_ok) ==
    /\ pc = "constructed"
    /\ LET w == get_cropping_indices(zstack, obj.plane_id, obj.label_id)
           buffer == np_copy(SourceBuffer)
           cropped_zstack == Slice(zstack, w)
           plotting_info == get_plotting_info(cropped_zstack)
           raised == obj.save /\ ~savefig_ok
       IN out' = [ crop           |-> w,
                   cropped_buffer |-> buffer,
                   cropped_zstack |-> cropped_zstack,
                   plotting_info  |-> plotting_info,
                   column3        |-> Column3(cropped_zstack, plotting_info, obj.plane_id),
                   saved          |-> obj.save /\ savefig_ok,
                   shown          |-> ~raised /\ obj.show,
                   closed         |-> ~raised /\ ~obj.show,
                   raised         |-> raised ]
    /\ pc' = IF obj.save /\ ~savefig_ok THEN "save_error" ELSE "done"
    /\ UNCHANGED <<zstack, request, obj, clampIn, clampOut>>

Init == InitInspect \/ InitClamp

Next ==
    \/ \E label_index \in LabelIndexes, show \in BOOLEAN, save \in BOOLEAN :
            Construct(label_index, show, save)
    \/ \E savefig_ok \in BOOLEAN : Run(savefig_ok)
    \/ Adjust

Spec == Init /\ [][Next]_vars

\* ------------------------------------------------------ properties
Called == pc = "clamp" /\ clampOut # <<>>
Constructed == pc \in {"constructed", "done", "save_error"}
Ran == pc \in {"done", "save_error"}
\* the call asked for a non-negative label_index (a constructed object then has
\* label_index < number of labels, or get_label_id would have raised)
ValidIndex == request # <<>> /\ 0 <= request.label_index

\* the unique non-zero labels of a volume, ascending
NonZeroLabels(v) == SortedSeq({ c[4] : c \in v.cells } \ {0})

\* the distinct planes on which a label appears, ascending
DistinctPlanes(v, label_id) == SortedSeq({ c[1] : c \in { d \in v.cells : d[4] = label_id } })

\* C1: for axis_extent >= 2*half_window and 0 <= c <= axis_extent the returned
\* window is exactly 2*half_window wide, and the whole-axis fallback of the last
\* branch is returned only when axis_extent < 2*half_window.
C1_FullWidthWheneverAxisFits ==
    Called =>
        /\ (clampIn[2] >= 2 * clampIn[3]) => (clampOut[2] - clampOut[1] = 2 * clampIn[3])
        /\ (ClampBranch(clampIn[1], clampIn[2], clampIn[3]) = 4) => (clampIn[2] < 2 * clampIn[3])

\* C2: get_plane_id returns the element at position floor(|P| / 2) of the
\* ascending list of the distinct planes P on which the label appears, whatever
\* the number of cells per plane.
C2_PlaneIsPositionalMidpointOfDistinctPlanes ==
    (Constructed /\ ValidIndex) =>
        LET P == DistinctPlanes(zstack, obj.label_id)
        IN obj.plane_id = P[(Len(P) \div 2) + 1]

\* C3: every label_index outside 0 <= label_index < (number of unique non-zero
\* labels), negative ones included, makes get_label_id fail: no object with a
\* label identity is constructed.
C3_OutOfRangeIndexFails ==
    (request # <<>> /\ ~(0 <= request.label_index
                         /\ request.label_index < Len(NonZeroLabels(zstack))))
        => pc = "index_error"

\* C4: for 0 <= c <= axis_extent the returned pair satisfies
\* 0 <= lower <= upper <= axis_extent, and the crop window of a run stays inside
\* the plane on both axes.
C4_WindowWithinAxis ==
    /\ Called =>
        /\ 0 <= clampOut[1]
        /\ clampOut[1] <= clampOut[2]
        /\ clampOut[2] <= clampIn[2]
    /\ Ran =>
        /\ 0 <= out.crop[1] /\ out.crop[1] <= out.crop[2] /\ out.crop[2] <= zstack.x_dim
        /\ 0 <= out.crop[3] /\ out.crop[3] <= out.crop[4] /\ out.crop[4] <= zstack.y_dim

C4_Witness ==
    /\ pc = "done"
    /\ out.crop = <<0, 300, 600, 1000>>

\* twice the crossing point of the two crosshair lines, <<plot x, plot y>>
MarkerCenterTwice(marker) ==
    << marker[1][1] + marker[1][2], marker[2][3] + marker[2][4] >>

\* C5: on the row of the representative plane the crosshair is drawn at the
\* geometric center of the crop window, ((cmaxx - cminx) / 2, (cmaxy - cminy) / 2)
\* in cropped coordinates, for every crop window; no other row has a marker.
C5_MarkerAtCenterOfCropWindow ==
    (Ran /\ ValidIndex) =>
        \A plane_index \in DOMAIN out.column3 :
            IF plane_index = obj.plane_id
            THEN /\ out.column3[plane_index].marker # <<>>
                 /\ MarkerCenterTwice(out.column3[plane_index].marker)
                        = << out.crop[4] - out.crop[3], out.crop[2] - out.crop[1] >>
            ELSE out.column3[plane_index].marker = <<>>

\* C6: when save and show are both requested and saving fails, the failure is
\* surfaced and the figure is still displayed.
C6_FailedSaveStillShows ==
    (pc = "save_error" /\ ValidIndex /\ obj.save /\ obj.show) => (out.raised /\ out.shown)

\* C7: for a valid label_index i the selected label_id is the i-th element of
\* the ascending unique non-zero values (never 0), and the selected plane_id is
\* a plane on which a cell carries that label_id.
C7_SelectionIsIthLabelOnOneOfItsPlanes ==
    (Constructed /\ 0 <= request.label_index
                 /\ request.label_index < Len(NonZeroLabels(zstack)))
        => /\ obj.label_id = NonZeroLabels(zstack)[request.label_index + 1]
           /\ obj.label_id # 0
           /\ \E c \in zstack.cells : c[1] = obj.plane_id /\ c[4] = obj.label_id

C7_Witness ==
    /\ pc = "constructed"
    /\ request.label_index = 1
    /\ obj.label_id = 7
    /\ obj.plane_id = 1
    /\ Cardinality({ c \in zstack.cells : c[4] = 7 }) = 2

\* C8: the mapping of get_plotting_info has a key for every plane 0..Z-1, and
\* under plane p an entry for label l exactly when l is non-zero and a cell of
\* plane p of the cropped volume carries l.
C8_PlotInfoIsSparsePerPlane ==
    Ran =>
        /\ DOMAIN out.plotting_info = 0..(out.cropped_zstack.z_dim - 1)
        /\ \A p \in DOMAIN out.plotting_info :
            \A l \in LabelSet \cup {0} \cup out.plotting_info[p] :
                (l \in out.plotting_info[p])
                    <=> (l # 0 /\ \E c \in out.cropped_zstack.cells : c[1] = p /\ c[4] = l)

C8_Witness ==
    /\ pc = "done"
    /\ out.cropped_zstack.z_dim = 2
    /\ out.plotting_info[0] = {3}
    /\ out.plotting_info[1] = {3, 7}

\* the four-branch policy of the window clamper as the specification words it
ClampPolicy(c, extent, h) ==
    IF c - h >= 0 /\ c + h <= extent THEN <<c - h, c + h>>
    ELSE IF c - h < 0 /\ 2 * h <= extent THEN <<0, 2 * h>>
    ELSE IF c - 2 * h >= 0 /\ c + h > extent THEN <<extent - 2 * h, extent>>
    ELSE <<0, extent>>

\* C9: adjust_cropping_box_to_image_borders equals the four-branch policy on
\* every input, and the worked examples come out as stated.
C9_ClamperEqualsFourBranchPolicy ==
    Called =>
        /\ clampOut = ClampPolicy(clampIn[1], clampIn[2], clampIn[3])
        /\ (clampIn = <<50, 1000, 200>>) => (clampOut = <<0, 400>>)
        /\ (clampIn = <<500, 1000, 200>>) => (clampOut = <<300, 700>>)
        /\ (clampIn = <<950, 1000, 200>>) => (clampOut = <<600, 1000>>)
        /\ (clampIn = <<50, 300, 200>>) => (clampOut = <<0, 300>>)
        /\ (clampIn = <<200, 400, 200>>) => (clampOut = <<0, 400>>)

C9_Witness ==
    /\ Called
    /\ clampIn = <<950, 1000, 200>>
    /\ clampOut = <<600, 1000>>

\* C10: a run leaves every cell of inspection_object.zstack as it was, and the
\* cropped volume lives in a buffer other than the source's.
C10_RunLeavesSourceVolumeAlone ==
    [][ /\ zstack' = zstack
        /\ (pc' \in {"done", "save_error"}) => (out'.cropped_buffer # SourceBuffer) ]_vars

C10_Witness ==
    /\ pc = "done"
    /\ out.cropped_zstack.x_dim < zstack.x_dim
    /\ out.cropped_zstack.cells # zstack.cells
    /\ out.cropped_zstack.cells # {}

\* the rounded centroid of the representative instance, as get_cropping_indices
\* reads it from the plane of interest
RepresentativeCentroid == polygon_centroid(Plane(zstack, obj.plane_id), obj.label_id)

\* C11: for 0 <= c <= axis_extent the returned window contains the centroid
\* coordinate, lower <= c <= upper, whichever branch is taken, and the crop
\* window of a run contains the representative instance's centroid on both axes.
C11_WindowContainsCentroid ==
    /\ Called =>
        /\ clampOut[1] <= clampIn[1]
        /\ clampIn[1] <= clampOut[2]
    /\ Ran =>
        /\ out.crop[1] <= RepresentativeCentroid[1]
        /\ RepresentativeCentroid[1] <= out.crop[2]
        /\ out.crop[3] <= RepresentativeCentroid[2]
        /\ RepresentativeCentroid[2] <= out.crop[4]

C11_Witness ==
    /\ pc = "done"
    /\ RepresentativeCentroid = <<450, 450>>
    /\ out.crop = <<100, 500, 100, 500>>

====
